---- MODULE Spec2Model ----
(***************************************************************************)
(* A model of the predator-prey world of this repository: the entity       *)
(* classes of src/creatures, the world class Manhattan of src/envio.py and *)
(* the driver of src/main.py (input handler and main loop).                *)
(*                                                                         *)
(* Numbers.  Positions, timers and time.dt are floats in the program and   *)
(* integers here; a frame's time.dt is a whole number of seconds.          *)
(*                                                                         *)
(* Attribute lookups.  The world treats its entities by duck typing, so    *)
(* the model records which class defines which attribute (HasMupdate,      *)
(* HasMetadata, ...): a lookup of an attribute a class does not define     *)
(* raises AttributeError, which ends updateCreatures unless it happens     *)
(* inside one of its try blocks.                                           *)
(***************************************************************************)
EXTENDS Integers, Sequences, FiniteSets, TLC

VARIABLES
    kSelectedCount, \* Manhattan.kSelectedCount: the kSelected the constructor was given
    rSelectedCount, \* Manhattan.rSelectedCount
    forestCount,    \* Manhattan.forestCount
    myEntities,     \* Manhattan.myEntities: the entity collection, a list of identities
    predators,      \* Manhattan.predators: the predator registry, a list of identities
    ent,            \* the objects ever constructed, by identity (their attributes)
    paused,         \* Manhattan.paused
    pc,             \* where the driver is: "loop", "tick", "body", "after", "step",
                    \* or "crashed" once an exception has left a handler
    cursor,         \* index of the for loop of updateCreatures (0-based, as in Python)
    clickedMetadata,\* the local of updateCreatures: 0 is None, else the owner of the dict
    returned,       \* what the last call of updateCreatures gave its caller
    dt,             \* time.dt, set by the engine at each app.step()
    clock,          \* the seconds the engine has run: the sum of time.dt over frames
    globalTimeInDays,
    previousGlobalTimeCSV,
    csv,            \* data.csv: the rows written by logCSV (the header is row 1)
    blood,          \* the BloodParticle effects requested so far: <<identity, x, z>>
    destroyed,      \* the identities handed to destroy()
    called,         \* the identities whose mupdate() ran in the current call, in order
    atStart,        \* myEntities as it was when the current call began
    refused,        \* the predators whose latest birth request met the cap
    populationData, \* population_data.csv, the file the analytics tools read
    toolResult,     \* what the last call of an analytics tool gave its caller
    mcp_session,    \* the bridge's global mcp_session: FALSE is None
    response        \* the last request the HTTP bridge answered, and its answer

vars == <<myEntities, predators, ent, paused, pc, cursor, clickedMetadata, returned,
          dt, clock, globalTimeInDays, previousGlobalTimeCSV, csv, blood,
          destroyed, called, atStart, refused, populationData, toolResult,
          kSelectedCount, rSelectedCount, forestCount, mcp_session, response>>

bridgeVars == <<mcp_session, response>>

toolVars == <<populationData, toolResult, bridgeVars>>

(* the counts the constructor stores; nothing assigns them afterwards *)
countVars == <<kSelectedCount, rSelectedCount, forestCount>>

(* population_data.csv absent; no tool called yet *)
NoFile == [exists |-> FALSE, lines |-> <<>>]
NoResult == [tool |-> "none", raised |-> FALSE, content |-> <<>>, saved |-> FALSE]

(* no request answered yet *)
NoResponse ==
    [endpoint |-> "none", tool |-> "none", session |-> FALSE,
     status |-> 0, detail |-> "", called |-> "none"]

----------------------------------------------------------------------------
(* Bounds of the model *)

MaxBuilt == 2           \* the constructor is given rSelected + forestCount <= MaxBuilt
MaxDt == 1              \* a frame's time.dt is drawn from 1..MaxDt
MaxPredators == 1       \* the "p" key is accepted while fewer predators are registered
MaxClock == 1           \* app.step() runs while the engine's clock stays within this

(* Program constants *)

Boundary == 20          \* the reflecting boundary of Rabbit.update and Bobcat.mupdate
TimerMax == 4           \* random.randint(0, 4)
PopulationCap == 75     \* len(self.myEntities) < 75
CaptureRadius == 3
FleeRadius == 5
HungerThreshold == 3
FedNourishment == 7
BornNourishment == 10
DaysPerSecond == 42
DaysPerYear == 365
KSelectedDefault == 2   \* Manhattan(kSelected=2, rSelected=15, forestCount=30)
RSelectedDefault == 15
ForestDefault == 30
LifeMin == 4000
LifeMax == 5475
PregnancyMin == 625
PregnancyMax == 1095
PregnancyStepMin == 1000
PregnancyStepMax == 2000
AnimateDuration == 6

(* The values a random draw is taken from: the ends of each range *)

TimerDraws == {0, TimerMax}
DirDraws == {<<-1, -1>>, <<-1, 1>>, <<1, -1>>, <<1, 1>>}
PlaceDraws == {<<-Boundary, -Boundary>>, <<Boundary, Boundary>>}
LifeDraws == {LifeMin, LifeMax}
PregnancyDraws == {PregnancyMin, PregnancyMax}
PregnancyStepDraws == {PregnancyStepMin, PregnancyStepMax}

----------------------------------------------------------------------------
(* The entity classes.  One record shape serves all classes; an attribute  *)
(* a class does not define holds a filler that no definition reads.        *)

Blank ==
    [kind |-> "none", x |-> 0, z |-> 0, mode |-> "none",
     idleTimer |-> 0, walkTimer |-> 0, dx |-> 0, dz |-> 0,
     hasClicked |-> FALSE, clicked |-> FALSE, killMe |-> FALSE,
     age |-> 0, offspring |-> 0, lifeExpectancy |-> 0, pregnancyTimer |-> 0,
     makeOffspring |-> FALSE, nourishment |-> 0,
     animLeft |-> 0, animFromX |-> 0, animFromZ |-> 0, animToX |-> 0, animToZ |-> 0]

Rabbit(it, wt, dir) ==
    [Blank EXCEPT !.kind = "Rabbit", !.mode = "idle", !.idleTimer = it,
                  !.walkTimer = wt, !.dx = dir[1], !.dz = dir[2],
                  !.hasClicked = TRUE, !.clicked = TRUE]

(* a bobcat that is born hungry *)
BobcatBornHungry(wt, dir, life, preg) ==
    [Blank EXCEPT !.kind = "Bobcat", !.mode = "idle", !.walkTimer = wt,
                  !.dx = dir[1], !.dz = dir[2], !.hasClicked = TRUE,
                  !.lifeExpectancy = life, !.pregnancyTimer = preg,
                  !.nourishment = 0]

Bobcat(wt, dir, life, preg) ==
    [Blank EXCEPT !.kind = "Bobcat", !.mode = "idle", !.walkTimer = wt,
                  !.dx = dir[1], !.dz = dir[2], !.hasClicked = TRUE,
                  !.lifeExpectancy = life, !.pregnancyTimer = preg,
                  !.nourishment = BornNourishment]

Arbore(p) == [Blank EXCEPT !.kind = "Arbore", !.x = p[1], !.z = p[2]]

Grass == [Blank EXCEPT !.kind = "Grass"]

Sun == [Blank EXCEPT !.kind = "Sun"]

(* What the constructors draw.  A constructor draws each attribute on its  *)
(* own; the model samples the draws of one constructor jointly, so that    *)
(* every value of TimerDraws, LifeDraws and PregnancyDraws occurs, a       *)
(* rabbit takes every direction and its two timers vary independently.     *)

NewRabbits ==
    {Rabbit(0, 0, <<1, 1>>), Rabbit(0, TimerMax, <<-1, 1>>),
     Rabbit(TimerMax, 0, <<1, -1>>), Rabbit(TimerMax, TimerMax, <<-1, -1>>)}

NewBobcats ==
    {Bobcat(0, <<1, 1>>, LifeMin, PregnancyMin),
     Bobcat(TimerMax, <<-1, -1>>, LifeMax, PregnancyMax)}

NewArbores == {Arbore(p) : p \in PlaceDraws}

(* Which class defines which attribute *)

HasMupdate(e) == e.kind \in {"Bobcat", "Arbore", "Grass"}
HasMetadata(e) == e.kind \in {"Rabbit", "Bobcat"}
HasMakeOffspring(e) == e.kind = "Bobcat"
HasLastname(e) == e.kind = "Bobcat"

----------------------------------------------------------------------------
(* Helpers on lists *)

Range(s) == {s[i] : i \in 1..Len(s)}

(* list.remove(v): the list without the first occurrence of v *)
Remove(s, v) ==
    LET at == {k \in 1..Len(s) : s[k] = v}
        first == CHOOSE k \in at : \A m \in at : k <= m
    IN  IF at = {} THEN s
        ELSE SubSeq(s, 1, first - 1) \o SubSeq(s, first + 1, Len(s))

RabbitsOf(list, objs) == {i \in Range(list) : HasMetadata(objs[i]) /\ objs[i].kind = "Rabbit"}

RECURSIVE Lists(_, _)
Lists(S, n) ==
    IF n = 0 THEN {<<>>}
    ELSE {<<h>> \o t : h \in S, t \in Lists(S, n - 1)}

----------------------------------------------------------------------------
(* Geometry on the ground plane (every Rabbit and Bobcat has y = 0) *)

Abs(n) == IF n < 0 THEN -n ELSE n

Sq(n) == n * n

Dist2(a, b) == Sq(a.x - b.x) + Sq(a.z - b.z)

RECURSIVE IsqrtFrom(_, _)
IsqrtFrom(n, r) == IF Sq(r + 1) > n THEN r ELSE IsqrtFrom(n, r + 1)

Isqrt(n) == IsqrtFrom(n, 0)

(* one component of (a - b).normalized() * time.dt * 2, cut to a whole    *)
(* number; the zero vector normalizes to the zero vector                  *)
FleePush(c, len2, d) ==
    IF len2 = 0 THEN 0
    ELSE IF c >= 0 THEN (2 * d * c) \div Isqrt(len2)
    ELSE -((2 * d * (-c)) \div Isqrt(len2))

OutOfBounds(e) == e.x > Boundary \/ e.x < -Boundary \/ e.z > Boundary \/ e.z < -Boundary

(* the direction reversal of Rabbit.update and Bobcat.mupdate *)
TowardCentre(pos, dir) == IF pos < 0 THEN 1 ELSE IF pos > 0 THEN -1 ELSE dir

----------------------------------------------------------------------------
(* Rabbit.update: every result the random draws allow *)

RabbitBounce(r) ==
    IF OutOfBounds(r)
    THEN {[r EXCEPT !.mode = "idle", !.walkTimer = n,
                    !.dx = TowardCentre(r.x, r.dx),
                    !.dz = TowardCentre(r.z, r.dz)] : n \in TimerDraws}
    ELSE {r}

RabbitTimeout(r) ==
    IF r.walkTimer <= 0
    THEN {[r EXCEPT !.mode = "idle", !.walkTimer = n, !.dx = v[1], !.dz = v[2]] :
             n \in TimerDraws, v \in DirDraws}
    ELSE {r}

(* an update in which a fleeing rabbit runs on *)
RabbitUpdateFleeRuns(r, d) ==
    IF r.mode = "idle"
    THEN IF r.idleTimer - d <= 0
         THEN {[r EXCEPT !.mode = "walk", !.idleTimer = n] : n \in TimerDraws}
         ELSE {[r EXCEPT !.idleTimer = @ - d]}
    ELSE LET moved == [r EXCEPT !.walkTimer = @ - d,
                                !.x = @ + r.dx * d, !.z = @ + r.dz * d]
         IN  UNION {RabbitTimeout(b) : b \in RabbitBounce(moved)}

RabbitUpdate(r, d) ==
    IF r.mode = "idle"
    THEN IF r.idleTimer - d <= 0
         THEN {[r EXCEPT !.mode = "walk", !.idleTimer = n] : n \in TimerDraws}
         ELSE {[r EXCEPT !.idleTimer = @ - d]}
    ELSE IF r.mode = "walk"
    THEN LET moved == [r EXCEPT !.walkTimer = @ - d,
                                !.x = @ + r.dx * d, !.z = @ + r.dz * d]
         IN  UNION {RabbitTimeout(b) : b \in RabbitBounce(moved)}
    ELSE {r}

----------------------------------------------------------------------------
(* Bobcat.mupdate: every result the random draws allow *)

(* an ageing by the seconds of the frame instead of its days *)
BobcatAgeInSeconds(b, d) ==
    LET aged == [b EXCEPT !.age = @ + d]
    IN  IF aged.age > aged.lifeExpectancy THEN [aged EXCEPT !.killMe = TRUE] ELSE aged

BobcatAge(b, d) ==
    LET aged == [b EXCEPT !.age = @ + DaysPerSecond * d]
    IN  IF aged.age > aged.lifeExpectancy THEN [aged EXCEPT !.killMe = TRUE] ELSE aged

(* a pregnancy that counts the offspring and raises no request *)
BobcatPregnancyUnflagged(b) ==
    IF b.age > b.pregnancyTimer
    THEN {[b EXCEPT !.offspring = @ + 1, !.pregnancyTimer = @ + s] :
             s \in PregnancyStepDraws}
    ELSE {b}

BobcatPregnancy(b) ==
    IF b.age > b.pregnancyTimer
    THEN {[b EXCEPT !.offspring = @ + 1, !.pregnancyTimer = @ + s,
                    !.makeOffspring = TRUE] : s \in PregnancyStepDraws}
    ELSE {b}

BobcatWalk(b, d) ==
    IF ~b.clicked
    THEN [b EXCEPT !.walkTimer = @ - d, !.x = @ + b.dx * d, !.z = @ + b.dz * d]
    ELSE b

BobcatBounce(b) ==
    IF OutOfBounds(b)
    THEN {[b EXCEPT !.mode = "idle", !.walkTimer = n,
                    !.dx = TowardCentre(b.x, b.dx),
                    !.dz = TowardCentre(b.z, b.dz)] : n \in TimerDraws}
    ELSE {b}

BobcatTimeout(b) ==
    IF b.walkTimer <= 0
    THEN {[b EXCEPT !.mode = "idle", !.walkTimer = n, !.dx = v[1], !.dz = v[2]] :
             n \in TimerDraws, v \in DirDraws}
    ELSE {b}

BobcatMupdate(b, d) ==
    UNION {UNION {BobcatTimeout(c) : c \in BobcatBounce(BobcatWalk(p, d))} :
              p \in BobcatPregnancy(BobcatAge(b, d))}

----------------------------------------------------------------------------
(* The body of the for loop of Manhattan.updateCreatures, statement by     *)
(* statement, on a world value w: the lists, the objects and what the call *)
(* has done so far.  Each operator gives every world the random draws      *)
(* allow; w.raised is set where an exception leaves updateCreatures.       *)

World ==
    [list |-> myEntities, preds |-> predators, objs |-> ent, blood |-> blood,
     destroyed |-> destroyed, cm |-> clickedMetadata, called |-> called,
     raised |-> FALSE]

Raise(w) == [w EXCEPT !.raised = TRUE]

(* death.BloodParticle(entity.position) and destroy(entity) *)
Bleed(w, id) ==
    [w EXCEPT !.blood = Append(@, <<id, w.objs[id].x, w.objs[id].z>>),
              !.destroyed = @ \cup {id}]

(* entity.mupdate() *)
CallMupdate(w, id, d) ==
    LET e == w.objs[id]
    IN  IF ~HasMupdate(e) THEN {Raise(w)}
        ELSE IF e.kind = "Bobcat"
        THEN {[w EXCEPT !.objs[id] = b, !.called = Append(@, id)] :
                 b \in BobcatMupdate(e, d)}
        ELSE {[w EXCEPT !.called = Append(@, id)]}

(* a birth block that still admits a birth at the cap *)
HandleBirthAtCap(w, id) ==
    LET e == w.objs[id]
    IN  IF HasMakeOffspring(e) /\ e.makeOffspring /\ Len(w.list) <= PopulationCap
        THEN {[w EXCEPT !.objs = Append([@ EXCEPT ![id].makeOffspring = FALSE], r),
                        !.list = Append(@, Len(w.objs) + 1)] : r \in NewRabbits}
        ELSE {w}

(* "handles birth": the try block; a missing makeOffspring is swallowed *)
HandleBirth(w, id) ==
    LET e == w.objs[id]
    IN  IF HasMakeOffspring(e) /\ e.makeOffspring /\ Len(w.list) < PopulationCap
        THEN {[w EXCEPT !.objs = Append([@ EXCEPT ![id].makeOffspring = FALSE], r),
                        !.list = Append(@, Len(w.objs) + 1)] : r \in NewRabbits}
        ELSE {w}

(* a retargeting that takes the meal away from the predator *)
RetargetDrained(w, pid) ==
    IF \E i \in Range(w.list) : ~HasMetadata(w.objs[i]) THEN {Raise(w)}
    ELSE IF RabbitsOf(w.list, w.objs) = {} THEN {w}
    ELSE {[w EXCEPT !.objs[pid].nourishment = @ - FedNourishment]}

(* the retargeting after a capture: the list comprehension reads the      *)
(* metadata of every entity of the collection, outside the try block; the *)
(* try block swallows the IndexError of random.choice on an empty list    *)
Retarget(w, pid) ==
    IF \E i \in Range(w.list) : ~HasMetadata(w.objs[i]) THEN {Raise(w)}
    ELSE IF RabbitsOf(w.list, w.objs) = {} THEN {w}
    ELSE {[w EXCEPT !.objs[pid].animLeft = AnimateDuration,
                    !.objs[pid].animFromX = w.objs[pid].x,
                    !.objs[pid].animFromZ = w.objs[pid].z,
                    !.objs[pid].animToX = w.objs[t].x,
                    !.objs[pid].animToZ = w.objs[t].z,
                    !.objs[pid].nourishment = FedNourishment] :
             t \in RabbitsOf(w.list, w.objs)}

(* a capture that leaves the prey in the collection *)
CaptureKept(w, id, pid) == Retarget(Bleed(w, id), pid)

(* "too late, get eaten and die" *)
Capture(w, id, pid) ==
    Retarget(Bleed([w EXCEPT !.list = Remove(@, id)], id), pid)

Captures(e, p) ==
    Dist2(e, p) < Sq(CaptureRadius) /\ p.nourishment < HungerThreshold

(* a flee release that already fires at the flee radius *)
FleeCheckEager(w, id, pid, d) ==
    LET e == w.objs[id]
        p == w.objs[pid]
    IN  IF e.mode # "flee"
        THEN IF Dist2(e, p) < Sq(FleeRadius)
             THEN {[w EXCEPT !.objs[id].mode = "flee"]}
             ELSE {w}
        ELSE IF Dist2(e, p) >= Sq(FleeRadius)
             THEN {[w EXCEPT !.objs[id].mode = "walk"]}
             ELSE {w}

(* the flee trigger and the flee release for one predator *)
FleeCheck(w, id, pid, d) ==
    LET e == w.objs[id]
        p == w.objs[pid]
    IN  IF e.mode # "flee"
        THEN IF Dist2(e, p) < Sq(FleeRadius)
             THEN {[w EXCEPT !.objs[id].mode = "flee",
                             !.objs[id].dx = @ + FleePush(e.x - p.x, Dist2(e, p), d),
                             !.objs[id].dz = @ + FleePush(e.z - p.z, Dist2(e, p), d)]}
             ELSE {w}
        ELSE IF Dist2(e, p) > Sq(FleeRadius)
             THEN {[w EXCEPT !.objs[id].mode = "walk", !.objs[id].dx = v[1],
                             !.objs[id].dz = v[2], !.objs[id].walkTimer = n] :
                      v \in DirDraws, n \in TimerDraws}
             ELSE {w}

(* "for predators in self.predators" for a rabbit, from the k-th predator *)
(* on: a capture ends the loop (break)                                    *)
RECURSIVE RabbitLoop(_, _, _, _)
RabbitLoop(w, id, k, d) ==
    IF k > Len(w.preds) THEN {w}
    ELSE IF Captures(w.objs[id], w.objs[w.preds[k]]) THEN Capture(w, id, w.preds[k])
    ELSE UNION {RabbitLoop(v, id, k + 1, d) : v \in FleeCheck(w, id, w.preds[k], d)}

(* a predators loop without the test for a rabbit *)
PredatorsLoopForAll(w, id, d) ==
    IF w.preds = <<>> THEN {w}
    ELSE IF ~HasMetadata(w.objs[id]) THEN {Raise(w)}
    ELSE RabbitLoop(w, id, 1, d)

(* "for predators in self.predators": each iteration reads the metadata   *)
(* of the entity and does nothing more unless the entity is a rabbit      *)
PredatorsLoop(w, id, d) ==
    IF w.preds = <<>> THEN {w}
    ELSE IF ~HasMetadata(w.objs[id]) THEN {Raise(w)}
    ELSE IF w.objs[id].kind # "Rabbit" THEN {w}
    ELSE RabbitLoop(w, id, 1, d)

(* "handles death": starvation, then the removal of an entity with killMe *)
Starve(w, id) ==
    IF w.objs[id].kind = "Bobcat" /\ w.objs[id].nourishment <= 0
    THEN [w EXCEPT !.objs[id].killMe = TRUE]
    ELSE w

(* a removal that forgets the registry of predators *)
BuryInCollection(w, id) ==
    IF ~w.objs[id].killMe THEN w
    ELSE Bleed([w EXCEPT !.list = Remove(@, id)], id)

Bury(w, id) ==
    IF ~w.objs[id].killMe THEN w
    ELSE IF id \notin Range(w.list) THEN Raise(w)
    ELSE IF w.objs[id].kind = "Bobcat" /\ id \notin Range(w.preds)
    THEN Raise([w EXCEPT !.list = Remove(@, id)])
    ELSE Bleed([w EXCEPT !.list = Remove(@, id),
                         !.preds = IF w.objs[id].kind = "Bobcat"
                                   THEN Remove(@, id) ELSE @], id)

HandleDeath(w, id) ==
    IF ~HasMetadata(w.objs[id]) THEN Raise(w) ELSE Bury(Starve(w, id), id)

(* the last try block: the metadata of a clicked entity is the result *)
NoteClicked(w, id) ==
    IF w.objs[id].hasClicked /\ w.objs[id].clicked THEN [w EXCEPT !.cm = id] ELSE w

(* the statements after entity.mupdate(), in order; an exception ends them *)
AfterMupdate(w, id, d) ==
    UNION {UNION {IF v.raised THEN {v}
                  ELSE LET h == HandleDeath(v, id)
                       IN  {IF h.raised THEN h ELSE NoteClicked(h, id)} :
                  v \in PredatorsLoop(b, id, d)} :
              b \in HandleBirth(w, id)}

----------------------------------------------------------------------------
(* What the engine does in app.step(): it sets time.dt, calls update() of  *)
(* every entity that has one and is not destroyed, and advances the        *)
(* animations started by animate_position.                                 *)

Dts == 1..MaxDt

Animate(b, d) ==
    IF b.animLeft = 0 THEN b
    ELSE IF d >= b.animLeft
    THEN [b EXCEPT !.animLeft = 0, !.x = b.animToX, !.z = b.animToZ]
    ELSE LET done == AnimateDuration - (b.animLeft - d)
         IN  [b EXCEPT !.animLeft = @ - d,
                       !.x = b.animFromX + ((b.animToX - b.animFromX) * done) \div AnimateDuration,
                       !.z = b.animFromZ + ((b.animToZ - b.animFromZ) * done) \div AnimateDuration]

(* update() of the rabbits of S, in the order of their construction *)
RECURSIVE RabbitFrames(_, _, _)
RabbitFrames(objs, S, d) ==
    IF S = {} THEN {objs}
    ELSE LET i == CHOOSE k \in S : \A m \in S : k <= m
         IN  UNION {RabbitFrames([objs EXCEPT ![i] = r], S \ {i}, d) :
                       r \in RabbitUpdate(objs[i], d)}

(* the animations advance, then the rabbits update (the concatenation     *)
(* keeps the objects a list)                                              *)
FrameUpdate(objs, dead, d) ==
    RabbitFrames(<<>> \o [i \in 1..Len(objs) |->
                             IF objs[i].kind = "Bobcat" /\ i \notin dead
                             THEN Animate(objs[i], d) ELSE objs[i]],
                 {i \in 1..Len(objs) : objs[i].kind = "Rabbit" /\ i \notin dead}, d)

----------------------------------------------------------------------------
(* Manhattan.__init__ and createWorld: rSelected rabbits, forestCount      *)
(* trees, the grass and the sun, in this order; no predator is created.    *)

(* the kSelected a constructor call is given: none, or the default *)
KSelectedDraws == {0, KSelectedDefault}

CreateWorld(rSelected, forest) ==
    {rs \o ts \o <<Grass, Sun>> : rs \in Lists(NewRabbits, rSelected),
                                  ts \in Lists(NewArbores, forest)}

Ids(objs) == [i \in 1..Len(objs) |-> i]

Init ==
    /\ kSelectedCount \in KSelectedDraws
    /\ rSelectedCount \in 0..MaxBuilt
    /\ forestCount \in 0..(MaxBuilt - rSelectedCount)
    /\ ent \in CreateWorld(rSelectedCount, forestCount)
    /\ myEntities = Ids(ent)
    /\ predators = <<>>
    /\ paused = FALSE
    /\ pc = "loop"
    /\ cursor = 0
    /\ clickedMetadata = 0
    /\ returned = 0
    /\ dt = 0
    /\ clock = 0
    /\ globalTimeInDays = 0
    /\ previousGlobalTimeCSV = 0
    /\ csv = <<>>
    /\ blood = <<>>
    /\ destroyed = {}
    /\ called = <<>>
    /\ atStart = <<>>
    /\ refused = {}
    /\ mcp_session = FALSE
    /\ response = NoResponse
    /\ populationData = NoFile
    /\ toolResult = NoResult

----------------------------------------------------------------------------
(* The handlers of src/main.py.  The engine delivers input between two     *)
(* iterations of the main loop.                                            *)

driverVars == <<dt, clock, globalTimeInDays, previousGlobalTimeCSV, csv>>
callVars == <<cursor, clickedMetadata, returned, called, atStart, refused>>

(* input("space") *)
KeySpace ==
    /\ pc = "loop"
    /\ paused' = ~paused
    /\ UNCHANGED <<countVars, toolVars, myEntities, predators, ent, pc, blood, destroyed, driverVars, callVars>>

(* the objects after the try block of input("p") for the new bobcat b *)
Chase(objs, list, b) ==
    IF RabbitsOf(list, objs) = {} THEN {objs}
    ELSE {[objs EXCEPT ![b].animLeft = AnimateDuration,
                       ![b].animFromX = objs[b].x, ![b].animFromZ = objs[b].z,
                       ![b].animToX = objs[t].x, ![b].animToZ = objs[t].z,
                       ![b].nourishment = BornNourishment] : t \in RabbitsOf(list, objs)}

(* input("p"): the list comprehension reads the metadata of every entity *)
KeyP ==
    /\ pc = "loop"
    /\ Len(predators) < MaxPredators
    /\ \E b \in NewBobcats :
         LET objs == Append(ent, b)
             id == Len(objs)
             list == Append(myEntities, id)
         IN  /\ myEntities' = list
             /\ predators' = Append(predators, id)
             /\ IF \E i \in Range(list) : ~HasMetadata(objs[i])
                THEN ent' = objs /\ pc' = "crashed"
                ELSE ent' \in Chase(objs, list, id) /\ pc' = "loop"
    /\ UNCHANGED <<countVars, toolVars, paused, blood, destroyed, driverVars, callVars>>

(* a clearClicked that stops at the first selected entity *)
ClearFirstClicked(objs, list) ==
    LET sel == {k \in 1..Len(list) : objs[list[k]].clicked}
    IN  [i \in 1..Len(objs) |->
            IF sel # {} /\ i = list[CHOOSE k \in sel : \A m \in sel : k <= m]
            THEN [objs[i] EXCEPT !.hasClicked = TRUE, !.clicked = FALSE]
            ELSE objs[i]]

(* Manhattan.clearClicked, called by input("left mouse down") *)
ClearClicked(objs, list) ==
    [i \in 1..Len(objs) |->
        IF i \in Range(list) THEN [objs[i] EXCEPT !.hasClicked = TRUE, !.clicked = FALSE]
        ELSE objs[i]]

LeftMouseDown ==
    /\ pc = "loop"
    /\ ent' = ClearClicked(ent, myEntities)
    /\ UNCHANGED <<countVars, toolVars, myEntities, predators, paused, pc, blood, destroyed, driverVars, callVars>>

(* Rabbit.clicked, the on_click of a rabbit of the scene *)
Select(objs, id) == [objs EXCEPT ![id].clicked = TRUE]

Click ==
    /\ pc = "loop"
    /\ \E id \in 1..Len(ent) :
         /\ ent[id].kind = "Rabbit"
         /\ id \notin destroyed
         /\ ent' = Select(ent, id)
    /\ UNCHANGED <<countVars, toolVars, myEntities, predators, paused, pc, blood, destroyed, driverVars, callVars>>

(* the top of an iteration of "while True": the test of envio.paused *)
LoopTop ==
    /\ pc = "loop"
    /\ IF paused
       THEN /\ pc' = "step"
            /\ UNCHANGED callVars
       ELSE /\ pc' = "tick"
            /\ cursor' = 0
            /\ clickedMetadata' = 0
            /\ called' = <<>>
            /\ atStart' = myEntities
            /\ UNCHANGED <<returned, refused>>
    /\ UNCHANGED <<countVars, toolVars, myEntities, predators, ent, paused, blood, destroyed, driverVars>>

(* the predators whose request is pending after the statements that led   *)
(* from the state to w: a new request (offspring grew) is not yet refused, *)
(* a request left standing by the birth block has met the cap              *)
Refused(w, id, next) ==
    IF ent[id].kind # "Bobcat" THEN refused
    ELSE IF next = "body"
    THEN IF w.objs[id].offspring > ent[id].offspring THEN refused \ {id} ELSE refused
    ELSE IF w.objs[id].makeOffspring THEN refused \cup {id} ELSE refused \ {id}

(* the world value w becomes the state; an exception ends the program *)
Becomes(w, id, next, nextCursor) ==
    /\ myEntities' = w.list
    /\ predators' = w.preds
    /\ ent' = w.objs
    /\ blood' = w.blood
    /\ destroyed' = w.destroyed
    /\ clickedMetadata' = w.cm
    /\ called' = w.called
    /\ IF w.raised
       THEN pc' = "crashed" /\ returned' = -1 /\ UNCHANGED cursor
       ELSE pc' = next /\ cursor' = nextCursor /\ UNCHANGED returned
    /\ refused' = Refused(w, id, next)
    /\ UNCHANGED <<countVars, toolVars, paused, atStart, driverVars>>

(* the for loop takes the entity at the cursor and calls its mupdate() *)
StepMupdate ==
    /\ pc = "tick"
    /\ cursor < Len(myEntities)
    /\ \E w \in CallMupdate(World, myEntities[cursor + 1], dt) :
         Becomes(w, myEntities[cursor + 1], "body", cursor)

(* the rest of the loop body for the entity whose mupdate() returned *)
StepRest ==
    /\ pc = "body"
    /\ \E w \in AfterMupdate(World, myEntities[cursor + 1], dt) :
         Becomes(w, myEntities[cursor + 1], "tick", cursor + 1)

(* the for loop is exhausted: return clickedMetadata *)
Return ==
    /\ pc = "tick"
    /\ cursor >= Len(myEntities)
    /\ returned' = clickedMetadata
    /\ pc' = "after"
    /\ UNCHANGED <<countVars, toolVars, myEntities, predators, ent, paused, blood, destroyed, driverVars,
                   cursor, clickedMetadata, called, atStart, refused>>

(* the main loop after updateCreatures returned: the name label reads the  *)
(* "lastname" of the returned metadata (KeyError if it has none), the prey *)
(* counter reads the metadata of every entity, then the clock and logCSV   *)
Year(days) == days \div DaysPerYear

(* a line of data.csv: the header, or a row of three cells *)
HeaderRow == [header |-> <<"time", "prey", "predators">>]
DataRow(t, prey, preds) == [time |-> t, prey |-> prey, predators |-> preds]

(* a logCSV that writes the header in front of every row *)
LogCSVHeaderAlways(file, t, prey, preds) ==
    file \o <<HeaderRow>> \o <<DataRow(t, prey, preds)>>

(* logCSV: the file is opened for appending; the header goes first into *)
(* an empty file                                                         *)
LogCSV(file, t, prey, preds) ==
    file \o (IF file = <<>> THEN <<HeaderRow>> ELSE <<>>) \o <<DataRow(t, prey, preds)>>

AfterTick ==
    /\ pc = "after"
    /\ IF returned # 0 /\ ~HasLastname(ent[returned])
       THEN /\ pc' = "crashed"
            /\ UNCHANGED <<globalTimeInDays, previousGlobalTimeCSV, csv>>
       ELSE /\ globalTimeInDays' = globalTimeInDays + DaysPerSecond * dt
            /\ IF \E i \in Range(myEntities) : ~HasMetadata(ent[i])
               THEN /\ pc' = "crashed"
                    /\ UNCHANGED <<previousGlobalTimeCSV, csv>>
               ELSE /\ pc' = "step"
                    /\ IF Year(globalTimeInDays') # previousGlobalTimeCSV
                       THEN /\ previousGlobalTimeCSV' = Year(globalTimeInDays')
                            /\ csv' = LogCSV(csv, Year(globalTimeInDays'),
                                             Cardinality(RabbitsOf(myEntities, ent)),
                                             Len(predators))
                       ELSE UNCHANGED <<previousGlobalTimeCSV, csv>>
    /\ UNCHANGED <<countVars, toolVars, myEntities, predators, ent, paused, blood, destroyed, dt, clock, callVars>>

(* app.step(), the frame lasting one of the times ds *)
Frame(ds, limit) ==
    /\ pc = "step"
    /\ \E d \in ds :
         /\ clock + d <= limit
         /\ dt' = d
         /\ clock' = clock + d
         /\ ent' \in FrameUpdate(ent, destroyed, d)
    /\ pc' = "loop"
    /\ UNCHANGED <<countVars, toolVars, myEntities, predators, paused, blood, destroyed,
                   globalTimeInDays, previousGlobalTimeCSV, csv, callVars>>

AppStep == Frame(Dts, MaxClock)

Next ==
    \/ KeySpace
    \/ KeyP
    \/ LeftMouseDown
    \/ Click
    \/ LoopTop
    \/ StepMupdate
    \/ StepRest
    \/ AppStep

Spec == Init /\ [][Next]_vars

----------------------------------------------------------------------------
(* updateCreatures on any world.  The constructor builds only worlds whose *)
(* first entity stops the loop, so the statements of the loop body are     *)
(* also run from drawn worlds: any short list of rabbits, bobcats and      *)
(* trees, or a world filled with bobcats up to the population cap (one     *)
(* more frame of one second is followed there), the bobcats registered as  *)
(* predators; the call starts at the top of the loop or, when the first    *)
(* entity is a rabbit, at the statement after its entity.mupdate().        *)

MaxList == 2            \* a drawn world lists at most this many creatures

RabbitXs == {2, 3, 4, 5, 6}

RabbitCast ==
    {[Rabbit(TimerMax, TimerMax, <<1, 1>>) EXCEPT !.x = px, !.mode = m, !.clicked = c] :
        px \in RabbitXs, m \in {"idle", "flee"}, c \in {FALSE}}
    \cup {[Rabbit(TimerMax, TimerMax, <<1, 1>>) EXCEPT !.x = 6]}

Grown(age, life, preg, food) ==
    [Bobcat(TimerMax, <<1, 1>>, life, preg) EXCEPT !.age = age, !.nourishment = food]

BobcatCast ==
    {Grown(0, LifeMin, PregnancyMin, f) : f \in {0, HungerThreshold - 1, HungerThreshold}}
    \cup {Grown(LifeMin, LifeMin, PregnancyMin + 3 * PregnancyStepMax, BornNourishment),
          Grown(PregnancyMin, LifeMin, PregnancyMin, BornNourishment)}

Cast == RabbitCast \cup BobcatCast \cup NewArbores

CapCast ==
    {Grown(LifeMin, LifeMin, PregnancyMin + 3 * PregnancyStepMax, BornNourishment),
     Grown(PregnancyMin, LifeMin, PregnancyMin, BornNourishment)}

Fill(n) == [i \in 1..n |-> Grown(0, LifeMin, PregnancyMin, BornNourishment)]

ShortWorlds == UNION {Lists(Cast, n) : n \in 0..MaxList}

(* two rabbits and a bobcat that is hungry: a capture leaves a rabbit *)
PreyWorlds ==
    {<<a, b, Grown(0, LifeMin, PregnancyMin, f)>> :
        a \in RabbitCast, b \in RabbitCast, f \in {0, HungerThreshold - 1}}

(* a rabbit and two bobcats that are not hungry, one at the origin and  *)
(* one a flee radius away on the other side, in either order           *)
PackWorlds ==
    LET near == Grown(0, LifeMin, PregnancyMin, HungerThreshold)
        far == [near EXCEPT !.x = -FleeRadius]
    IN  {<<r, near, far>> : r \in RabbitCast} \cup {<<r, far, near>> : r \in RabbitCast}

(* a rabbit, a hungry bobcat and a tree *)
GroveWorlds ==
    {<<r, Grown(0, LifeMin, PregnancyMin, 0), t>> : r \in RabbitCast, t \in NewArbores}

FullWorlds ==
    UNION {{core \o Fill(PopulationCap - n - less) : core \in Lists(CapCast, n),
                                                     less \in {0, 1}} :
              n \in 1..MaxList}

IsBobcat(e) == e.kind = "Bobcat"

(* the identities of the bobcats of objs, in order *)
BobcatIds(objs) ==
    LET hits == SelectSeq([i \in 1..Len(objs) |-> <<i, objs[i]>>],
                          LAMBDA pair : IsBobcat(pair[2]))
    IN  [k \in 1..Len(hits) |-> hits[k][1]]

InitAny ==
    /\ \/ ent \in ShortWorlds \cup PreyWorlds \cup PackWorlds \cup GroveWorlds
          /\ dt \in Dts /\ clock = 0
       \/ ent \in FullWorlds /\ dt = 1 /\ clock = MaxClock - 1
    /\ myEntities = Ids(ent)
    /\ predators = BobcatIds(ent)
    /\ paused = FALSE
    /\ \/ pc = "tick" /\ cursor = 0 /\ called = <<>>
       \/ /\ pc = "body"
          /\ ent # <<>> /\ ent[1].kind = "Rabbit"
          /\ cursor = 0
          /\ called = <<1>>
    /\ clickedMetadata = 0
    /\ returned = 0
    /\ globalTimeInDays = 0
    /\ previousGlobalTimeCSV = 0
    /\ csv = <<>>
    /\ blood = <<>>
    /\ destroyed = {}
    /\ atStart = myEntities
    /\ refused = {}
    /\ mcp_session = FALSE
    /\ response = NoResponse
    /\ kSelectedCount = KSelectedDefault
    /\ rSelectedCount = RSelectedDefault
    /\ forestCount = ForestDefault
    /\ populationData = NoFile
    /\ toolResult = NoResult

NextAny ==
    \/ KeyP
    \/ LoopTop
    \/ StepMupdate
    \/ StepRest
    \/ Return
    \/ AfterTick
    \/ AppStep

SpecAny == InitAny /\ [][NextAny]_vars

----------------------------------------------------------------------------
(* Rabbit.update on any rabbit: the paused main loop on a world of one     *)
(* rabbit, whose position, mode, direction and timers are drawn.           *)

Coords == {-Boundary - 1, -Boundary, 0, Boundary, Boundary + 1}

DrawnRabbits ==
    {[Rabbit(it, wt, d) EXCEPT !.x = px, !.z = pz, !.mode = m] :
        it \in TimerDraws, wt \in {0, 1, TimerMax}, d \in DirDraws,
        px \in Coords, pz \in Coords, m \in {"idle", "walk", "flee"}}

InitRabbit ==
    /\ \E r \in DrawnRabbits : ent = <<r>>
    /\ myEntities = <<1>>
    /\ predators = <<>>
    /\ paused = TRUE
    /\ pc = "loop"
    /\ cursor = 0
    /\ clickedMetadata = 0
    /\ returned = 0
    /\ dt = 0
    /\ clock = 0
    /\ globalTimeInDays = 0
    /\ previousGlobalTimeCSV = 0
    /\ csv = <<>>
    /\ blood = <<>>
    /\ destroyed = {}
    /\ called = <<>>
    /\ atStart = <<>>
    /\ refused = {}
    /\ mcp_session = FALSE
    /\ response = NoResponse
    /\ kSelectedCount = KSelectedDefault
    /\ rSelectedCount = RSelectedDefault
    /\ forestCount = ForestDefault
    /\ populationData = NoFile
    /\ toolResult = NoResult

NextRabbit ==
    \/ LoopTop
    \/ AppStep

SpecRabbit == InitRabbit /\ [][NextRabbit]_vars

----------------------------------------------------------------------------
(* The main loop over simulated years: frames long enough for the clock of *)
(* the main loop to cross year boundaries, on a world without entities and *)
(* on a world of one bobcat; data.csv does not exist when the run starts.  *)

MaxYearDt == 9          \* the longest frame of such a run, in seconds
MaxYearClock == 27      \* such a run is followed for this many seconds

YearDts == {MaxYearDt \div 2, MaxYearDt}

YearWorlds == {<<>>, <<Grown(0, LifeMax, PregnancyMax, BornNourishment)>>}

InitYears ==
    /\ ent \in YearWorlds
    /\ myEntities = Ids(ent)
    /\ predators = BobcatIds(ent)
    /\ paused = FALSE
    /\ pc = "loop"
    /\ cursor = 0
    /\ clickedMetadata = 0
    /\ returned = 0
    /\ dt \in YearDts
    /\ clock = 0
    /\ globalTimeInDays = 0
    /\ previousGlobalTimeCSV = 0
    /\ csv = <<>>
    /\ blood = <<>>
    /\ destroyed = {}
    /\ called = <<>>
    /\ atStart = <<>>
    /\ refused = {}
    /\ mcp_session = FALSE
    /\ response = NoResponse
    /\ kSelectedCount = KSelectedDefault
    /\ rSelectedCount = RSelectedDefault
    /\ forestCount = ForestDefault
    /\ populationData = NoFile
    /\ toolResult = NoResult

AppStepYears == Frame(YearDts, MaxYearClock)

NextYears ==
    \/ KeySpace
    \/ LoopTop
    \/ StepMupdate
    \/ StepRest
    \/ Return
    \/ AfterTick
    \/ AppStepYears

SpecYears == InitYears /\ [][NextYears]_vars

----------------------------------------------------------------------------
(* The main loop over a bobcat's life: an unpaused world of bobcats, whose *)
(* classes have both mupdate and metadata, followed for longer than the    *)
(* longest life expectancy.  The while loop of src/main.py never waits, so *)
(* a step that the loop can take is taken.                                 *)

MaxLifeClock == 140     \* such a run is followed for this many seconds

LifeWorlds ==
    {<<b>> : b \in NewBobcats}

InitLife ==
    /\ ent \in LifeWorlds
    /\ myEntities = Ids(ent)
    /\ predators = BobcatIds(ent)
    /\ paused = FALSE
    /\ pc = "loop"
    /\ cursor = 0
    /\ clickedMetadata = 0
    /\ returned = 0
    /\ dt \in YearDts
    /\ clock = 0
    /\ globalTimeInDays = 0
    /\ previousGlobalTimeCSV = 0
    /\ csv = <<>>
    /\ blood = <<>>
    /\ destroyed = {}
    /\ called = <<>>
    /\ atStart = <<>>
    /\ refused = {}
    /\ mcp_session = FALSE
    /\ response = NoResponse
    /\ kSelectedCount = KSelectedDefault
    /\ rSelectedCount = RSelectedDefault
    /\ forestCount = ForestDefault
    /\ populationData = NoFile
    /\ toolResult = NoResult

AppStepLife == Frame(YearDts, MaxLifeClock)

NextLife ==
    \/ LoopTop
    \/ StepMupdate
    \/ StepRest
    \/ Return
    \/ AfterTick
    \/ AppStepLife

SpecLife == InitLife /\ [][NextLife]_vars /\ WF_vars(NextLife)

----------------------------------------------------------------------------
(* The analytics tools of src/mcp_server.py.  They run in a process of     *)
(* their own and share one thing with the rest: a CSV file.  A cell of the *)
(* file is a text; int() accepts the text of an integer only, float() also *)
(* the text of a decimal number.  A tool's answer is a list of contents;   *)
(* the text of a content is given by its first line for the reports.       *)

MaxRows == 3            \* population_data.csv holds at most this many data rows

IntText(n) == [text |-> "int", n |-> n]
DecimalText(n) == [text |-> "decimal", n |-> n]

(* the rows logCSV writes: the year is a float, the two counts are integers *)
FileRows ==
    {DataRow(DecimalText(t), IntText(prey), IntText(preds)) :
        t \in {1}, prey \in {0, 2, 40}, preds \in {0, 5}}

PopulationFiles ==
    {NoFile, [exists |-> TRUE, lines |-> <<>>]}
    \cup UNION {{[exists |-> TRUE, lines |-> <<HeaderRow>> \o rows] :
                    rows \in Lists(FileRows, n)} : n \in 0..MaxRows}

ParsesAsInt(cell) == cell.text = "int"

(* load_population_data: only FileNotFoundError is caught; csv.DictReader *)
(* takes the first line for the field names                               *)
LoadPopulationDataUncaught(file) ==
    IF ~file.exists THEN [raised |-> TRUE, data |-> <<>>]
    ELSE IF Len(file.lines) <= 1 THEN [raised |-> FALSE, data |-> <<>>]
    ELSE [raised |-> FALSE,
          data |-> [k \in 1..(Len(file.lines) - 1) |->
                       [time |-> file.lines[k + 1].time.n,
                        prey |-> file.lines[k + 1].prey.n,
                        predators |-> file.lines[k + 1].predators.n]]]

LoadPopulationData(file) ==
    IF ~file.exists THEN [raised |-> FALSE, data |-> <<>>]
    ELSE IF Len(file.lines) <= 1 THEN [raised |-> FALSE, data |-> <<>>]
    ELSE IF file.lines[1] # HeaderRow THEN [raised |-> TRUE, data |-> <<>>]
    ELSE IF \E k \in 2..Len(file.lines) :
               ~ParsesAsInt(file.lines[k].prey) \/ ~ParsesAsInt(file.lines[k].predators)
    THEN [raised |-> TRUE, data |-> <<>>]
    ELSE [raised |-> FALSE,
          data |-> [k \in 1..(Len(file.lines) - 1) |->
                       [time |-> file.lines[k + 1].time.n,
                        prey |-> file.lines[k + 1].prey.n,
                        predators |-> file.lines[k + 1].predators.n]]]

(* a list of one TextContent; of the text the model keeps the first line *)
(* (or the whole message) and the risk scores printed in it              *)
TextContent(tool, text) ==
    [tool |-> tool, raised |-> FALSE,
     content |-> <<[type |-> "text", text |-> text, scores |-> <<>>,
                    prey |-> <<>>, predators |-> <<>>]>>, saved |-> FALSE]

Raised(tool) == [tool |-> tool, raised |-> TRUE, content |-> <<>>, saved |-> FALSE]

Focuses == {"overall", "prey", "predator", "interactions"}

(* generate_ecological_report *)
GenerateEcologicalReport(file, focus) ==
    LET loaded == LoadPopulationData(file)
    IN  IF loaded.raised THEN Raised("generate_ecological_report")
        ELSE IF loaded.data = <<>>
        THEN TextContent("generate_ecological_report",
                         "No historical data available. Please run the simulation first to collect population data.")
        ELSE TextContent("generate_ecological_report", "ECOLOGICAL SIMULATION REPORT")

(* steps = int(years / dt) with dt = 0.1 *)
StepsPerYear == 10

ForecastYears == {1, 30}

(* The arrays of run_lotka_volterra_simulation hold floats; the model     *)
(* holds them in hundredths and rounds each change down to a hundredth.   *)
LvScale == 100

(* the arguments <<initial_prey, initial_predators, years>> a forecast is  *)
(* called with, the populations in hundredths: the defaults 40 and 5, and  *)
(* starts from 0.2, 0.05, 0 and -1                                         *)
ForecastDraws ==
    {<<40 * LvScale, 5 * LvScale, 30>>, <<40 * LvScale, 20, 30>>,
     <<0, 5 * LvScale, 30>>, <<5, 5 * LvScale, 1>>,
     <<-LvScale, 5 * LvScale, 1>>, <<0, -LvScale, 1>>}

(* (alpha * prey - beta * prey * predators) * dt with alpha = 0.5,        *)
(* beta = 0.02 and dt = 0.1                                               *)
PreyChange(p, q) == (25 * LvScale * p - p * q) \div (500 * LvScale)

(* (delta * prey * predators - gamma * predators) * dt with delta = 0.01, *)
(* gamma = 0.3 and dt = 0.1                                               *)
PredChange(p, q) == (p * q - 30 * LvScale * q) \div (1000 * LvScale)

(* max(0, v), then 0 if below 0.1 *)
Clamped(v) ==
    LET m == IF v > 0 THEN v ELSE 0
    IN  IF m < LvScale \div 10 THEN 0 ELSE m

(* one pass of the for loop over range(1, steps): the next index of both  *)
(* arrays is filled from the index before it                               *)
EulerStep(a) ==
    LET p == a.prey[Len(a.prey)]
        q == a.predators[Len(a.predators)]
    IN  [prey |-> Append(a.prey, Clamped(p + PreyChange(p, q))),
         predators |-> Append(a.predators, Clamped(q + PredChange(p, q)))]

(* n passes of the for loop: the first half of them, and once their       *)
(* arrays are there, the rest                                             *)
RECURSIVE Integrate(_, _)
Integrate(a, n) ==
    IF n <= 0 THEN a
    ELSE IF n = 1 THEN EulerStep(a)
    ELSE LET half == Integrate(a, n \div 2)
         IN  IF Len(half.prey) = Len(half.predators)
             THEN Integrate(half, n - n \div 2)
             ELSE half

(* run_lotka_volterra_simulation: prey[0] = prey_0 raises IndexError on an *)
(* array of no steps; index 0 takes the initial values as they are given;  *)
(* the plot is saved before the narrative is returned                      *)
RunLotkaVolterraSimulation(prey0, pred0, years) ==
    IF years * StepsPerYear < 1 THEN Raised("run_lotka_volterra_simulation")
    ELSE LET arrays == Integrate([prey |-> <<prey0>>, predators |-> <<pred0>>],
                                 years * StepsPerYear - 1)
         IN  [TextContent("run_lotka_volterra_simulation",
                          "LOTKA-VOLTERRA PREDICTIVE SIMULATION")
                 EXCEPT !.saved = TRUE,
                        !.content[1].prey = arrays.prey,
                        !.content[1].predators = arrays.predators]

Species == {"prey", "predator", "both"}

YearsToAnalyze == {0, 1, 2, 3, 10}

MinRiskPoints == 3

(* data[-int(years_to_analyze):] if len(data) > years_to_analyze else data *)
RecentData(data, years) ==
    IF Len(data) > years /\ years > 0
    THEN SubSeq(data, Len(data) - years + 1, Len(data))
    ELSE data

RECURSIVE Sum(_)
Sum(seq) == IF seq = <<>> THEN 0 ELSE Head(seq) + Sum(Tail(seq))

Min(seq) == CHOOSE m \in Range(seq) : \A v \in Range(seq) : m <= v

(* the coefficient of variation std / mean * 100 of the counts exceeds    *)
(* percent (0 when the mean is 0), compared on the squares: with n        *)
(* counts, sum S and sum of squares Q the variance is (n*Q - S*S) / n^2   *)
CvAbove(counts, percent) ==
    LET n == Len(counts)
        S == Sum(counts)
        Q == Sum([k \in 1..n |-> counts[k] * counts[k]])
    IN  S > 0 /\ (n * Q - S * S) * 10000 > percent * percent * S * S

(* assess_species_risk: the risk score in tenths, min(risk_score, 10.0) *)
AssessSpeciesRisk(recent, key, isPredator) ==
    LET populations == [k \in 1..Len(recent) |-> recent[k][key]]
        n == Len(populations)
        S == Sum(populations)
        low == Min(populations)
        floor == IF low = 0 THEN 30 ELSE IF low < 3 THEN 25
                 ELSE IF low < 5 THEN 20 ELSE IF low < 10 THEN 10 ELSE 0
        volatility == IF CvAbove(populations, 80) THEN 30
                      ELSE IF CvAbove(populations, 50) THEN 20
                      ELSE IF CvAbove(populations, 30) THEN 10 ELSE 0
        trend == populations[n] - populations[n - 2]
        decline == IF n < 3 THEN 0
                   ELSE IF 10 * n * trend < -(3 * S) THEN 20
                   ELSE IF trend < 0 THEN 5 ELSE 0
        prey == [k \in 1..Len(recent) |-> recent[k].prey]
        food == IF ~isPredator THEN 0
                ELSE IF CvAbove(prey, 50) THEN 15
                ELSE IF CvAbove(prey, 30) THEN 5 ELSE 0
        score == floor + volatility + decline + food
    IN  IF score < 100 THEN score ELSE 100

(* the scores the report prints, for the species asked for *)
ReportedScores(recent, species) ==
    (IF species \in {"prey", "both"}
     THEN <<[species |-> "prey", tenths |-> AssessSpeciesRisk(recent, "prey", FALSE)]>>
     ELSE <<>>)
    \o (IF species \in {"predator", "both"}
        THEN <<[species |-> "predator",
                tenths |-> AssessSpeciesRisk(recent, "predators", TRUE)]>>
        ELSE <<>>)

(* calculate_extinction_risk *)
CalculateExtinctionRisk(file, species, years) ==
    LET loaded == LoadPopulationData(file)
        recent == RecentData(loaded.data, years)
    IN  IF loaded.raised THEN Raised("calculate_extinction_risk")
        ELSE IF loaded.data = <<>>
        THEN TextContent("calculate_extinction_risk",
                         "No historical data available for risk assessment.")
        ELSE IF Len(recent) < MinRiskPoints
        THEN TextContent("calculate_extinction_risk",
                         "Insufficient data for extinction risk analysis. Need at least 3 data points.")
        ELSE [TextContent("calculate_extinction_risk", "EXTINCTION RISK ASSESSMENT")
                 EXCEPT !.content[1].scores = ReportedScores(recent, species)]

simVars == <<myEntities, predators, ent, paused, pc, cursor, clickedMetadata, returned,
             dt, clock, globalTimeInDays, previousGlobalTimeCSV, csv, blood,
             destroyed, called, atStart, refused, countVars>>

(* a client calls a tool *)
CallReport ==
    /\ \E focus \in Focuses :
          toolResult' = GenerateEcologicalReport(populationData, focus)
    /\ UNCHANGED <<populationData, simVars, bridgeVars>>

CallForecast ==
    /\ \E args \in ForecastDraws :
          /\ args[3] \in ForecastYears
          /\ toolResult' = RunLotkaVolterraSimulation(args[1], args[2], args[3])
    /\ UNCHANGED <<populationData, simVars, bridgeVars>>

CallRisk ==
    /\ \E species \in Species, years \in YearsToAnalyze :
          toolResult' = CalculateExtinctionRisk(populationData, species, years)
    /\ UNCHANGED <<populationData, simVars, bridgeVars>>

InitTools ==
    /\ populationData \in PopulationFiles
    /\ toolResult = NoResult
    /\ ent = <<>>
    /\ myEntities = <<>>
    /\ predators = <<>>
    /\ paused = FALSE
    /\ pc = "loop"
    /\ cursor = 0
    /\ clickedMetadata = 0
    /\ returned = 0
    /\ dt = 0
    /\ clock = 0
    /\ globalTimeInDays = 0
    /\ previousGlobalTimeCSV = 0
    /\ csv = <<>>
    /\ blood = <<>>
    /\ destroyed = {}
    /\ called = <<>>
    /\ atStart = <<>>
    /\ refused = {}
    /\ mcp_session = FALSE
    /\ response = NoResponse
    /\ kSelectedCount = KSelectedDefault
    /\ rSelectedCount = RSelectedDefault
    /\ forestCount = ForestDefault

NextTools ==
    \/ CallReport
    \/ CallForecast
    \/ CallRisk

SpecTools == InitTools /\ [][NextTools]_vars

----------------------------------------------------------------------------
(* The HTTP bridge of src/mcp_http_bridge.py.  It answers a request with a *)
(* status; a tool it calls runs in the server of src/mcp_server.py, which  *)
(* answers with what the tool returned.  A request gives the arguments     *)
(* below; how the session reports a tool that raised is the library's      *)
(* matter, and the bridge then answers with 200 or with 500.               *)

ToolNames ==
    {"generate_ecological_report", "run_lotka_volterra_simulation",
     "calculate_extinction_risk"}

(* the "tool" of the body of a POST /mcp: absent, a tool, or no tool's name *)
McpBodies == {[tool |-> n] : n \in ToolNames \cup {"missing", "unknown_tool"}}

(* handle_call_tool, with analysis_focus "overall", a forecast of one year *)
(* from 40 prey and 5 predators, and species "predator" over 10 years      *)
HandleCallTool(name, file) ==
    IF name = "generate_ecological_report"
    THEN GenerateEcologicalReport(file, "overall")
    ELSE IF name = "run_lotka_volterra_simulation"
    THEN RunLotkaVolterraSimulation(40 * LvScale, 5 * LvScale, 1)
    ELSE IF name = "calculate_extinction_risk"
    THEN CalculateExtinctionRisk(file, "predator", 10)
    ELSE Raised(name)

Answer(endpoint, tool, status, detail, ran) ==
    [endpoint |-> endpoint, tool |-> tool, session |-> mcp_session,
     status |-> status, detail |-> detail, called |-> ran]

(* the answers to a request after mcp_session.call_tool(name) *)
AfterCallTool(endpoint, tool, result) ==
    {Answer(endpoint, tool, st, "", tool) :
        st \in IF result.raised THEN {200, 500} ELSE {200}}

(* mcp_call: the test of the session stands before the try block; the     *)
(* HTTPException of the missing tool is raised inside it, and the except  *)
(* Exception clause answers with 500 and the text of what it caught       *)
McpCall(body) ==
    IF ~mcp_session
    THEN {<<Answer("/mcp", body.tool, 503, "MCP client not initialized", "none"),
            toolResult>>}
    ELSE IF body.tool = "missing"
    THEN {<<Answer("/mcp", body.tool, 500, "str(e)", "none"), toolResult>>}
    ELSE LET result == HandleCallTool(body.tool, populationData)
         IN  {<<a, result>> : a \in AfterCallTool("/mcp", body.tool, result)}

(* the three endpoints /tools/<name> *)
ToolEndpoint(name) ==
    IF ~mcp_session
    THEN {<<Answer("/tools", name, 503, "MCP client not initialized", "none"),
            toolResult>>}
    ELSE LET result == HandleCallTool(name, populationData)
         IN  {<<a, result>> : a \in AfterCallTool("/tools", name, result)}

(* lifespan: the session is initialised *)
Lifespan ==
    /\ ~mcp_session
    /\ mcp_session' = TRUE
    /\ UNCHANGED <<populationData, toolResult, response, simVars>>

PostMcp ==
    /\ \E body \in McpBodies : \E out \in McpCall(body) :
          response' = out[1] /\ toolResult' = out[2]
    /\ UNCHANGED <<populationData, mcp_session, simVars>>

PostTool ==
    /\ \E name \in ToolNames : \E out \in ToolEndpoint(name) :
          response' = out[1] /\ toolResult' = out[2]
    /\ UNCHANGED <<populationData, mcp_session, simVars>>

InitBridge ==
    /\ populationData \in PopulationFiles
    /\ toolResult = NoResult
    /\ mcp_session = FALSE
    /\ response = NoResponse
    /\ ent = <<>>
    /\ myEntities = <<>>
    /\ predators = <<>>
    /\ paused = FALSE
    /\ pc = "loop"
    /\ cursor = 0
    /\ clickedMetadata = 0
    /\ returned = 0
    /\ dt = 0
    /\ clock = 0
    /\ globalTimeInDays = 0
    /\ previousGlobalTimeCSV = 0
    /\ csv = <<>>
    /\ blood = <<>>
    /\ destroyed = {}
    /\ called = <<>>
    /\ atStart = <<>>
    /\ refused = {}
    /\ kSelectedCount = KSelectedDefault
    /\ rSelectedCount = RSelectedDefault
    /\ forestCount = ForestDefault

NextBridge ==
    \/ Lifespan
    \/ PostMcp
    \/ PostTool

SpecBridge == InitBridge /\ [][NextBridge]_vars

----------------------------------------------------------------------------
(* Properties of updateCreatures, checked on the drawn worlds (SpecAny).   *)

(* C1: population conservation.  Every step of a tick changes the size of  *)
(* the collection by the births minus the deaths of that step, and each    *)
(* death and birth is applied once: no entity is listed twice, none is     *)
(* removed twice, the collection is exactly the constructed entities that  *)
(* have not died, and between two loop bodies no listed entity is flagged  *)
(* to die.                                                                 *)
C1_PopulationConservation ==
    [][/\ Len(myEntities') - Len(myEntities)
             = (Len(ent') - Len(ent)) - (Len(blood') - Len(blood))
       /\ \A i, j \in 1..Len(myEntities') : myEntities'[i] = myEntities'[j] => i = j
       /\ \A i, j \in 1..Len(blood') : blood'[i][1] = blood'[j][1] => i = j
       /\ destroyed' = {blood'[i][1] : i \in 1..Len(blood')}
       /\ Range(myEntities') = (1..Len(ent')) \ destroyed'
       /\ pc' \in {"tick", "after", "step", "loop"}
             => \A i \in Range(myEntities') : ~ent'[i].killMe]_vars

(* a call in which one entity of the snapshot died and a rabbit was born *)
C1_Witness ==
    /\ \E i \in Range(atStart) : i \in destroyed
    /\ \E i \in Range(myEntities) : i \notin Range(atStart) /\ ent[i].kind = "Rabbit"

(* C2: the registry of predators is exactly the bobcats of the collection, *)
(* each once, in every state: a predator enters both lists in one step and *)
(* leaves both in one step.                                                *)
C2_RegistryMatchesCollection ==
    /\ Range(predators) = {i \in Range(myEntities) : ent[i].kind = "Bobcat"}
    /\ \A i, j \in 1..Len(predators) : predators[i] = predators[j] => i = j

(* a bobcat has died in a tick and the "p" key has added another since *)
C2_Witness ==
    /\ \E b \in destroyed : ent[b].kind = "Bobcat"
    /\ \E p \in Range(predators) : p \notin Range(atStart)

C9_BirthUnderCap ==
    [][/\ (pc = "body" /\ pc' # "body" /\ ent[myEntities[cursor + 1]].kind = "Bobcat"
             /\ ent[myEntities[cursor + 1]].makeOffspring)
          => IF Len(myEntities) < PopulationCap
             THEN /\ Len(ent') = Len(ent) + 1
                  /\ ent'[Len(ent')].kind = "Rabbit"
                  /\ Cardinality({k \in 1..Len(myEntities') :
                                     myEntities'[k] = Len(ent')}) = 1
                  /\ ~ent'[myEntities[cursor + 1]].makeOffspring
             ELSE Len(ent') = Len(ent)
       /\ (Len(ent') > Len(ent) /\ ent'[Len(ent')].kind = "Rabbit")
          => /\ pc = "body"
             /\ ent[myEntities[cursor + 1]].kind = "Bobcat"
             /\ ent[myEntities[cursor + 1]].makeOffspring
             /\ Len(myEntities') <= PopulationCap]_vars

(* a birth has filled the collection up to the cap *)
C9_Witness ==
    /\ Len(myEntities) = PopulationCap
    /\ myEntities[Len(myEntities)] \notin Range(atStart)
    /\ ent[myEntities[Len(myEntities)]].kind = "Rabbit"

----------------------------------------------------------------------------
(* Properties of the handlers of the main loop, checked on the worlds the  *)
(* constructor builds (Spec).                                              *)

(* C6: selection is exclusive.  clearClicked leaves no entity of the       *)
(* collection selected, and a click on a rabbit X in a collection with no  *)
(* selected entity leaves exactly X selected.                              *)
C6_SelectionExclusive ==
    [][/\ LeftMouseDown => \A i \in Range(myEntities') : ~ent'[i].clicked
       /\ (Click /\ \A i \in Range(myEntities) : ~ent[i].clicked)
          => \E x \in Range(myEntities) :
                /\ ent[x].kind = "Rabbit"
                /\ ent'[x].clicked
                /\ {i \in Range(myEntities') : ent'[i].clicked} = {x}]_vars

(* one of two rabbits of the collection is selected, the other is not *)
C6_Witness ==
    \E x, y \in Range(myEntities) :
        /\ ent[x].kind = "Rabbit" /\ ent[y].kind = "Rabbit"
        /\ ent[x].clicked /\ ~ent[y].clicked

(* C8: a paused iteration is a no-op.  While paused, an iteration of the   *)
(* main loop (the test of the flag and app.step()) leaves the collection,  *)
(* the registry, every entity's mode, timers, position, age and flags, the *)
(* simulated time and the logged rows unchanged.                           *)
C8_PausedIterationIsNoOp ==
    [][(paused /\ (LoopTop \/ AppStep))
          => /\ UNCHANGED <<myEntities, predators, globalTimeInDays,
                            previousGlobalTimeCSV, csv>>
             /\ \A i \in 1..Len(ent) :
                   /\ ent'[i].mode = ent[i].mode
                   /\ ent'[i].idleTimer = ent[i].idleTimer
                   /\ ent'[i].walkTimer = ent[i].walkTimer
                   /\ ent'[i].x = ent[i].x /\ ent'[i].z = ent[i].z
                   /\ ent'[i].age = ent[i].age
                   /\ ent'[i].killMe = ent[i].killMe
                   /\ ent'[i].makeOffspring = ent[i].makeOffspring
                   /\ ent'[i].clicked = ent[i].clicked]_vars

----------------------------------------------------------------------------
(* Property of Rabbit.update, checked on the drawn rabbits (SpecRabbit).   *)

(* C5: boundary reflection.  A walking rabbit whose move in a frame takes  *)
(* a coordinate beyond the boundary ends the frame in mode idle with the   *)
(* direction on every exceeded axis pointing back to the centre, whatever  *)
(* the timer draw.                                                         *)
C5_BounceEndsIdleTowardCentre ==
    [][(AppStep /\ ent[1].mode = "walk")
          => LET nx == ent[1].x + ent[1].dx * dt'
                 nz == ent[1].z + ent[1].dz * dt'
             IN  (Abs(nx) > Boundary \/ Abs(nz) > Boundary)
                    => /\ ent'[1].mode = "idle"
                       /\ Abs(nx) > Boundary => ent'[1].dx * nx < 0
                       /\ Abs(nz) > Boundary => ent'[1].dz * nz < 0]_vars

----------------------------------------------------------------------------
(* Properties of the death block of updateCreatures (SpecAny).             *)

C13_NourishmentInvariant ==
    /\ [](\A i \in Range(predators) : ent[i].nourishment >= 0)
    /\ [][\A i \in 1..Len(ent) :
             (ent[i].kind = "Bobcat" /\ ent'[i].nourishment # ent[i].nourishment)
                => /\ ent'[i].nourishment = FedNourishment
                   /\ ent'[i].nourishment > ent[i].nourishment
                   /\ \E r \in Range(myEntities) \ Range(myEntities') :
                         ent[r].kind = "Rabbit" /\ r \in destroyed' \ destroyed]_vars

(* a capture has fed a bobcat of the registry *)
C13_Witness ==
    \E i \in Range(predators) :
        /\ ent[i].nourishment = FedNourishment
        /\ \E r \in destroyed : ent[r].kind = "Rabbit"

----------------------------------------------------------------------------
(* Properties of the selection as updateCreatures reports it.              *)

C15_ReturnsTheSelectedEntity ==
    /\ pc = "after"
          => LET sel == {i \in Range(myEntities) : ent[i].hasClicked /\ ent[i].clicked}
             IN  /\ sel = {} => returned = 0
                 /\ \A i \in sel : sel = {i} => returned = i
    /\ (pc = "crashed" /\ returned = -1 /\ cursor < Len(myEntities))
          => ent[myEntities[cursor + 1]].hasClicked

(* C16: at most one entity of the collection has its clicked flag set, in  *)
(* every state, the world createWorld builds and the states after a birth  *)
(* included.                                                               *)
C16_AtMostOneSelected ==
    Cardinality({i \in Range(myEntities) : ent[i].hasClicked /\ ent[i].clicked}) <= 1

----------------------------------------------------------------------------
(* Properties of the yearly records of the main loop (SpecYears).          *)

(* C17: year-boundary records.  The statements after updateCreatures in an *)
(* unpaused iteration append exactly one row (year, rabbits in the         *)
(* collection, length of the registry) when the floored year differs from  *)
(* the last recorded one and leave the file alone otherwise; no other step *)
(* writes; the file is empty or starts with the header, which occurs       *)
(* nowhere else, and the years of its rows are strictly increasing.        *)
C17_YearBoundaryRecords ==
    /\ [](csv # <<>>
            => /\ csv[1] = HeaderRow
               /\ \A k \in 2..Len(csv) : csv[k] # HeaderRow
               /\ \A j, k \in 2..Len(csv) : j < k => csv[j].time < csv[k].time)
    /\ [][IF pc = "after" /\ pc' = "step"
               /\ Year(globalTimeInDays') # previousGlobalTimeCSV
          THEN /\ Len(csv') = IF csv = <<>> THEN 2 ELSE Len(csv) + 1
               /\ SubSeq(csv', 1, Len(csv)) = csv
               /\ csv'[Len(csv')] = DataRow(Year(globalTimeInDays'),
                                            Cardinality(RabbitsOf(myEntities, ent)),
                                            Len(predators))
          ELSE csv' = csv]_vars

(* a second year has been recorded *)
C17_Witness ==
    /\ Len(csv) >= 3
    /\ csv[Len(csv)].time = previousGlobalTimeCSV
    /\ pc = "step"

----------------------------------------------------------------------------
(* Properties of updateCreatures on the world createWorld builds (Spec).   *)

(* C18: capability mismatches never crash a tick.  No exception leaves     *)
(* updateCreatures, whatever the entity at hand lacks.                     *)
C18_TickNeverRaises ==
    ~(pc = "crashed" /\ returned = -1)

----------------------------------------------------------------------------
(* Properties of the position of a rabbit over frames (SpecRabbit).        *)

(* C19: position boundary invariant.  When a frame takes a coordinate of   *)
(* the rabbit from inside [-Boundary, Boundary] to outside, the frame ends *)
(* with the direction on that axis pointing toward the centre, so that the *)
(* next movement does not carry the coordinate farther out.                *)
C19_OutsideFacesCentre ==
    [][AppStep
          => /\ (Abs(ent[1].x) <= Boundary /\ Abs(ent'[1].x) > Boundary)
                   => ent'[1].dx * ent'[1].x < 0
             /\ (Abs(ent[1].z) <= Boundary /\ Abs(ent'[1].z) > Boundary)
                   => ent'[1].dz * ent'[1].z < 0]_vars

----------------------------------------------------------------------------
(* Properties of the analytics tools (SpecTools).                          *)

(* the data rows of the file, counted on the file itself *)
DataPoints == IF Len(populationData.lines) = 0 THEN 0 ELSE Len(populationData.lines) - 1

(* C20: each of the three tools returns, without raising, a list whose     *)
(* first element is a text content, whether population_data.csv is absent, *)
(* empty or holds data; without data the report tool and the risk tool     *)
(* answer with their "No historical data" message, and the risk tool       *)
(* answers "Insufficient data" when the file holds one or two data points. *)
C20_ToolsAnswerWithText ==
    toolResult.tool # "none"
       => /\ ~toolResult.raised
          /\ toolResult.content # <<>>
          /\ toolResult.content[1].type = "text"
          /\ (toolResult.tool = "generate_ecological_report" /\ DataPoints = 0)
                => toolResult.content[1].text =
                      "No historical data available. Please run the simulation first to collect population data."
          /\ (toolResult.tool = "calculate_extinction_risk" /\ DataPoints = 0)
                => toolResult.content[1].text =
                      "No historical data available for risk assessment."
          /\ (toolResult.tool = "calculate_extinction_risk"
                /\ DataPoints > 0 /\ DataPoints < 3)
                => toolResult.content[1].text =
                      "Insufficient data for extinction risk analysis. Need at least 3 data points."

(* the risk tool has answered on a file of two data points *)
C20_Witness ==
    /\ toolResult.tool = "calculate_extinction_risk"
    /\ populationData.exists
    /\ DataPoints = 2

(* C21: every extinction risk score that calculate_extinction_risk reports *)
(* for a series of at least 3 data points lies between 1 and 10, here in   *)
(* tenths.                                                                 *)
C21_RiskScoreFromOneToTen ==
    (toolResult.tool = "calculate_extinction_risk" /\ toolResult.content # <<>>)
       => \A k \in 1..Len(toolResult.content[1].scores) :
             /\ toolResult.content[1].scores[k].tenths >= 10
             /\ toolResult.content[1].scores[k].tenths <= 100

----------------------------------------------------------------------------
(* Properties of the bobcat's own update (SpecAny).                        *)

(* C22: age is monotonically non-decreasing.  No step lowers the age of a  *)
(* rabbit or bobcat of the collection, and the step in which mupdate() of  *)
(* a bobcat runs raises its age by 42 times the seconds of the frame.      *)
C22_AgeNeverDecreases ==
    [][/\ \A i \in Range(myEntities) : ent'[i].age >= ent[i].age
       /\ (StepMupdate /\ ent[myEntities[cursor + 1]].kind = "Bobcat")
             => ent'[myEntities[cursor + 1]].age
                   = ent[myEntities[cursor + 1]].age + DaysPerSecond * dt]_vars

(* a bobcat of the collection has aged by the days of one frame *)
C22_Witness ==
    /\ pc = "body"
    /\ dt > 0
    /\ ent[myEntities[cursor + 1]].kind = "Bobcat"
    /\ ent[myEntities[cursor + 1]].age = DaysPerSecond * dt

----------------------------------------------------------------------------
(* Properties of the predators loop with several predators (SpecAny).      *)

C25_PredatorNeverFlees ==
    \A i \in 1..Len(ent) : ent[i].kind = "Bobcat" => ent[i].mode \in {"idle", "walk"}

(* the loop body has run for a bobcat with another bobcat nearer than 5 *)
C25_Witness ==
    /\ pc = "tick"
    /\ called # <<>>
    /\ LET id == called[Len(called)]
       IN  /\ ent[id].kind = "Bobcat"
           /\ id \in Range(myEntities)
           /\ \E p \in Range(predators) :
                 p # id /\ Dist2(ent[id], ent[p]) < Sq(FleeRadius)

----------------------------------------------------------------------------
(* Properties of the order of the phases of updateCreatures (SpecAny).     *)

----------------------------------------------------------------------------
(* Properties of captures and of hunger (SpecAny, Spec).                   *)

----------------------------------------------------------------------------
(* Properties of a bobcat's life (SpecLife).                               *)

C30_PregnancyEvents ==
    /\ [][(StepMupdate /\ ent[myEntities[cursor + 1]].kind = "Bobcat")
             => LET b == ent[myEntities[cursor + 1]]
                    c == ent'[myEntities[cursor + 1]]
                IN  IF c.age > b.pregnancyTimer
                    THEN /\ c.offspring = b.offspring + 1
                         /\ c.pregnancyTimer - b.pregnancyTimer
                               \in PregnancyStepMin..PregnancyStepMax
                         /\ c.makeOffspring
                    ELSE /\ c.offspring = b.offspring
                         /\ c.pregnancyTimer = b.pregnancyTimer
                         /\ c.makeOffspring = b.makeOffspring]_vars
    /\ []((pc # "body" /\ Len(myEntities) < PopulationCap)
             => Cardinality({i \in 1..Len(ent) : ent[i].kind = "Rabbit"})
                   = ent[1].offspring)

(* the bobcat has had one offspring, the rabbit was born and the request   *)
(* is cleared                                                              *)
C30_Witness ==
    /\ ent[1].kind = "Bobcat"
    /\ ent[1].offspring = 1
    /\ ent[1].pregnancyTimer >= PregnancyMin + PregnancyStepMin
    /\ ~ent[1].makeOffspring
    /\ Cardinality({i \in 1..Len(ent) : ent[i].kind = "Rabbit"}) = 1

----------------------------------------------------------------------------
(* Properties of the modes of a rabbit (SpecRabbit).                       *)

(* the directions the draws of Rabbit.update can leave the rabbit with *)
DirectionsAfterUpdate(r, d) == {<<o.dx, o.dz>> : o \in RabbitUpdate(r, d)}

(* C31: the prey state machine.  A rabbit's mode is always idle, walk or   *)
(* flee.  In a frame, an idle rabbit whose idle timer is <= 0 after the    *)
(* decrement turns to walk with a direction chosen among the four          *)
(* diagonals and an idle timer drawn anew; a walking rabbit whose walk     *)
(* timer is <= 0 after the decrement turns to idle with a direction chosen *)
(* among the four diagonals and a walk timer drawn anew; the rabbit's own  *)
(* update never enters flee.                                               *)
C31_PreyStateMachine ==
    /\ [](ent[1].mode \in {"idle", "walk", "flee"})
    /\ [][AppStep
            => /\ (ent[1].mode = "idle" /\ ent[1].idleTimer - dt' <= 0)
                     => /\ ent'[1].mode = "walk"
                        /\ ent'[1].idleTimer \in 0..TimerMax
                        /\ DirectionsAfterUpdate(ent[1], dt') = DirDraws
               /\ (ent[1].mode = "walk" /\ ent[1].walkTimer - dt' <= 0)
                     => /\ ent'[1].mode = "idle"
                        /\ ent'[1].walkTimer \in 0..TimerMax
                        /\ DirectionsAfterUpdate(ent[1], dt') = DirDraws
               /\ ent[1].mode # "flee" => ent'[1].mode # "flee"]_vars

----------------------------------------------------------------------------
(* Properties of the constructor (Spec).                                   *)

(* the entities of the collection that are of a class *)
OfKind(kind) == {i \in Range(myEntities) : ent[i].kind = kind}

(* C33: world construction.  In the state Manhattan(kSelected, rSelected,  *)
(* forestCount) leaves, the collection holds exactly rSelected rabbits,    *)
(* kSelected bobcats, each of them in the registry and the registry        *)
(* holding nothing else, forestCount trees, one grass and one sun, and the *)
(* world is not paused; the three counts are never assigned afterwards.    *)
C33_WorldConstruction ==
    /\ Cardinality(OfKind("Rabbit")) = rSelectedCount
    /\ Cardinality(OfKind("Bobcat")) = kSelectedCount
    /\ Range(predators) = OfKind("Bobcat")
    /\ Len(predators) = kSelectedCount
    /\ Cardinality(OfKind("Arbore")) = forestCount
    /\ Cardinality(OfKind("Grass")) = 1
    /\ Cardinality(OfKind("Sun")) = 1
    /\ Len(myEntities) = rSelectedCount + kSelectedCount + forestCount + 2
    /\ ~paused
    /\ [][UNCHANGED countVars]_vars

----------------------------------------------------------------------------
(* Properties of the forecast (SpecTools).                                 *)

(* a stored value is 0 or at least 0.1 *)
ZeroOrViable(v) == v = 0 \/ v >= LvScale \div 10

(* C34: the Lotka-Volterra integration.  At every index of the arrays of a *)
(* forecast the stored prey value and the stored predator value are 0 or   *)
(* at least 0.1, and a value that is 0 at an index is 0 at every later     *)
(* index.                                                                  *)
C34_ClampedAndAbsorbing ==
    (toolResult.tool = "run_lotka_volterra_simulation" /\ toolResult.content # <<>>)
       => LET prey == toolResult.content[1].prey
              preds == toolResult.content[1].predators
          IN  /\ \A i \in 1..Len(prey) : ZeroOrViable(prey[i])
              /\ \A i \in 1..Len(preds) : ZeroOrViable(preds[i])
              /\ \A i \in 1..Len(prey) : \A j \in i..Len(prey) :
                    prey[i] = 0 => prey[j] = 0
              /\ \A i \in 1..Len(preds) : \A j \in i..Len(preds) :
                    preds[i] = 0 => preds[j] = 0

----------------------------------------------------------------------------
(* Properties of the HTTP bridge (SpecBridge).                             *)

(* C35: the errors of the bridge.  A POST /mcp whose body has no "tool",   *)
(* arriving at an initialised session, is answered with status 400 and the *)
(* detail "Missing 'tool' parameter" and calls no tool; a request to /mcp  *)
(* or to a tool endpoint that arrives while the session is not initialised *)
(* is answered with status 503 and calls no tool.                          *)
C35_BridgeErrors ==
    /\ (response.endpoint = "/mcp" /\ response.tool = "missing" /\ response.session)
          => /\ response.status = 400
             /\ response.detail = "Missing 'tool' parameter"
             /\ response.called = "none"
    /\ (response.endpoint \in {"/mcp", "/tools"} /\ ~response.session)
          => /\ response.status = 503
             /\ response.called = "none"

============================================================================
